---- MODULE Spec2Model ----
(***************************************************************************)
(* State-machine model of the foodgram API request handlers                *)
(* (backend/api/views.py, backend/api/serializers.py).                     *)
(*                                                                         *)
(* The database tables are the state.  A table whose rows carry no data    *)
(* besides their key is a function from the key to the number of rows, so  *)
(* that a duplicate row is a state the model can express.  Every handler   *)
(* of views.py is one action; the recipe write path, which issues several  *)
(* ORM statements outside any transaction, is one action per statement.    *)
(***************************************************************************)
EXTENDS Integers, Sequences, FiniteSets, TLC

VARIABLES
    recipes,            \* Recipe table: pk -> [author, cooking_time]
    recipeTags,         \* Recipe.tags association: pk -> set of tag ids
    countOfIngredient,  \* CountOfIngredient table: set of [recipe, ingredient, amount]
    favorites,          \* Favorite table: <<user, recipe>> -> number of rows
    subscribes,         \* Subscribe table: <<user, author>> -> number of rows
    carts,              \* ShoppingCart table: user -> [exists, recipes]
    isBlocked,          \* User.is_blocked: user -> BOOLEAN
    tokens,             \* auth tokens: the set of users holding one
    op,                 \* the recipe write request being served, or NoOp
    response            \* the last response sent

vars == <<recipes, recipeTags, countOfIngredient, favorites, subscribes,
          carts, isBlocked, tokens, op, response>>

(***************************************************************************)
(* Bounds of the model.                                                    *)
(***************************************************************************)
NumUsers == 3
NumSeedRecipes == 2

Users == 1..NumUsers
\* ids a URL may carry: every user id and one that names no user
UserIds == 1..(NumUsers + 1)
SeedPks == 1..NumSeedRecipes
\* pks a URL may carry in the toggle endpoints: every seeded recipe and one unknown
SeedUrlPks == 1..(NumSeedRecipes + 1)

(***************************************************************************)
(* rest_framework.status names imported by views.py, and the outcomes of   *)
(* an exception no handler catches.                                        *)
(***************************************************************************)
HTTP_200_OK == "200"
HTTP_201_CREATED == "201"
HTTP_204_NO_CONTENT == "204"
HTTP_400_BAD_REQUEST == "400"
HTTP_404_NOT_FOUND == "404"
HTTP_403_FORBIDDEN == "403"
TypeError == "TypeError"
KeyError == "KeyError"
AssertionError == "AssertionError"
AttributeError == "AttributeError"
DoesNotExist == "DoesNotExist"
MultipleObjectsReturned == "MultipleObjectsReturned"
Raised == "exception"

\* the error messages of views.py, each standing for its text
FAVORITE_ALREADY_EXISTS == "FAVORITE_ALREADY_EXISTS"
FAVORITE_DONT_EXIST == "FAVORITE_DONT_EXIST"
SUBSCRIBE_CANNOT_CREATE_TO_YOURSELF == "SUBSCRIBE_CANNOT_CREATE_TO_YOURSELF"
SUBSCRIBE_CANNOT_CREATE_TWICE == "SUBSCRIBE_CANNOT_CREATE_TWICE"
SUBSCRIBE_CANNOT_DELETE == "SUBSCRIBE_CANNOT_DELETE"
USER_BLOCKED == "USER_BLOCKED"
USER_NOT_FOUND == "USER_NOT_FOUND"
SHOPPING_CART_DOES_NOT_EXISTS == "SHOPPING_CART_DOES_NOT_EXISTS"
SHOPPING_CART_RECIPE_CANNOT_ADDED_TWICE == "SHOPPING_CART_RECIPE_CANNOT_ADDED_TWICE"
SHOPPING_CART_RECIPE_CANNOT_DELETE == "SHOPPING_CART_RECIPE_CANNOT_DELETE"
NOT_FOUND == "Not found."

\* Response(status=...): a response without data
NoBody == [data |-> "None"]
\* {ERRORS_KEY: message}
Errors(message) == [errors |-> message]
\* {'detail': message}
Detail(message) == [detail |-> message]
\* a user without a ShoppingCart row (user.shopping_cart raises DoesNotExist)
NoCart == [exists |-> FALSE, recipes |-> {}]
NoOp == [pc |-> "idle"]
NoResponse ==
    [endpoint |-> "none", method |-> "none", user |-> 0, pk |-> 0,
     status |-> "none", body |-> NoBody]

Respond(endpoint, method, u, pk, status, body) ==
    [endpoint |-> endpoint, method |-> method, user |-> u, pk |-> pk,
     status |-> status, body |-> body]

\* RecipeShortReadSerializer: the fields of the short projection the model keeps
RecipeShortReadSerializer(pk) ==
    [id |-> pk, cooking_time |-> recipes[pk].cooking_time]

(***************************************************************************)
(* Seed data: recipes that exist before the toggle endpoints are used.     *)
(***************************************************************************)
SeedRecipes == [pk \in SeedPks |-> [author |-> 1, cooking_time |-> 1]]

(***************************************************************************)
(* RecipeViewSet.favorite                                                  *)
(***************************************************************************)
\* a mutation of add_to_favorite: the exists() guard is dropped
add_to_favorite_unguarded(u, recipe) ==
    [status |-> HTTP_201_CREATED,
     rows |-> [favorites EXCEPT ![<<u, recipe>>] = @ + 1],
     body |-> RecipeShortReadSerializer(recipe)]

add_to_favorite(u, recipe) ==
    IF favorites[<<u, recipe>>] > 0
    THEN [status |-> HTTP_400_BAD_REQUEST, rows |-> favorites,
          body |-> Errors(FAVORITE_ALREADY_EXISTS)]
    ELSE [status |-> HTTP_201_CREATED,
          rows |-> [favorites EXCEPT ![<<u, recipe>>] = @ + 1],
          body |-> RecipeShortReadSerializer(recipe)]

delete_from_favorite(u, recipe) ==
    IF ~(favorites[<<u, recipe>>] > 0)
    THEN [status |-> HTTP_400_BAD_REQUEST, rows |-> favorites,
          body |-> Errors(FAVORITE_DONT_EXIST)]
    ELSE [status |-> HTTP_204_NO_CONTENT,
          rows |-> [favorites EXCEPT ![<<u, recipe>>] = 0],
          body |-> NoBody]

favorite(u, method, pk) ==
    /\ LET r == IF pk \notin DOMAIN recipes
                THEN [status |-> HTTP_404_NOT_FOUND, rows |-> favorites,
                      body |-> Detail(NOT_FOUND)]
                ELSE IF method = "GET"
                     THEN add_to_favorite(u, pk)
                     ELSE delete_from_favorite(u, pk)
       IN /\ favorites' = r.rows
          /\ response' = Respond("favorite", method, u, pk, r.status, r.body)
    /\ UNCHANGED <<recipes, recipeTags, countOfIngredient, subscribes, carts,
                   isBlocked, tokens, op>>

InitSeeded ==
    /\ recipes = SeedRecipes
    /\ recipeTags = [pk \in SeedPks |-> {1}]
    /\ countOfIngredient = {}
    /\ favorites = [p \in Users \X SeedPks |-> 0]
    /\ subscribes = [p \in Users \X Users |-> 0]
    /\ carts = [u \in Users |-> NoCart]
    /\ isBlocked = [u \in Users |-> FALSE]
    /\ tokens = {}
    /\ op = NoOp
    /\ response = NoResponse

NextFavorite ==
    \E u \in Users, method \in {"GET", "DELETE"}, pk \in SeedUrlPks :
        favorite(u, method, pk)

SpecFavorite == InitSeeded /\ [][NextFavorite]_vars

(***************************************************************************)
(* C1: for every user and existing recipe the Favorite rows follow the     *)
(* two-state toggle: an add while absent answers 201 and inserts one row,  *)
(* an add while present answers 400 and changes nothing, a remove while    *)
(* present answers 204 and deletes the row, a remove while absent answers  *)
(* 400 and changes nothing; no pair ever has more than one row.            *)
(***************************************************************************)
C1_FavoriteStep ==
    (response'.endpoint = "favorite" /\ response'.pk \in DOMAIN recipes) =>
        LET p == <<response'.user, response'.pk>>
            others == (Users \X SeedPks) \ {p}
        IN /\ \A q \in others : favorites'[q] = favorites[q]
           /\ (response'.method = "GET" /\ favorites[p] = 0) =>
                  (response'.status = HTTP_201_CREATED /\ favorites'[p] = 1)
           /\ (response'.method = "GET" /\ favorites[p] > 0) =>
                  (response'.status = HTTP_400_BAD_REQUEST
                   /\ favorites'[p] = favorites[p])
           /\ (response'.method = "DELETE" /\ favorites[p] > 0) =>
                  (response'.status = HTTP_204_NO_CONTENT /\ favorites'[p] = 0)
           /\ (response'.method = "DELETE" /\ favorites[p] = 0) =>
                  (response'.status = HTTP_400_BAD_REQUEST /\ favorites'[p] = 0)

C1_FavoriteToggle ==
    /\ [](\A p \in Users \X SeedPks : favorites[p] <= 1)
    /\ [][C1_FavoriteStep]_vars

\* the second of two adds in succession was refused and one row exists
C1_Witness ==
    /\ response.endpoint = "favorite"
    /\ response.method = "GET"
    /\ response.status = HTTP_400_BAD_REQUEST
    /\ response.pk \in DOMAIN recipes
    /\ favorites[<<response.user, response.pk>>] = 1

(***************************************************************************)
(* UserSubscribeViewSet.subscribe                                          *)
(***************************************************************************)
\* SubscriptionSerializer: the author's id and recipes_count
SubscriptionSerializer(author) ==
    [id |-> author,
     recipes_count |->
         Cardinality({pk \in DOMAIN recipes : recipes[pk].author = author})]

\* a mutation of create_subscribe: the request.user == author guard is dropped
create_subscribe_to_anyone(u, author) ==
    IF subscribes[<<u, author>>] > 0
    THEN [status |-> HTTP_400_BAD_REQUEST, rows |-> subscribes,
          body |-> Errors(SUBSCRIBE_CANNOT_CREATE_TWICE)]
    ELSE [status |-> HTTP_201_CREATED,
          rows |-> [subscribes EXCEPT ![<<u, author>>] = @ + 1],
          body |-> SubscriptionSerializer(author)]

create_subscribe(u, author) ==
    IF u = author
    THEN [status |-> HTTP_400_BAD_REQUEST, rows |-> subscribes,
          body |-> Errors(SUBSCRIBE_CANNOT_CREATE_TO_YOURSELF)]
    ELSE IF subscribes[<<u, author>>] > 0
    THEN [status |-> HTTP_400_BAD_REQUEST, rows |-> subscribes,
          body |-> Errors(SUBSCRIBE_CANNOT_CREATE_TWICE)]
    ELSE [status |-> HTTP_201_CREATED,
          rows |-> [subscribes EXCEPT ![<<u, author>>] = @ + 1],
          body |-> SubscriptionSerializer(author)]

\* a mutation of delete_subscribe: Subscribe.DoesNotExist is swallowed
delete_subscribe_silent(u, author) ==
    IF subscribes[<<u, author>>] > 1
    THEN [status |-> MultipleObjectsReturned, rows |-> subscribes,
          body |-> NoBody]
    ELSE [status |-> HTTP_204_NO_CONTENT,
          rows |-> [subscribes EXCEPT ![<<u, author>>] = 0],
          body |-> NoBody]

\* Subscribe.objects.get(...) raises DoesNotExist for no row (caught) and
\* MultipleObjectsReturned for several (not caught)
delete_subscribe(u, author) ==
    IF subscribes[<<u, author>>] = 0
    THEN [status |-> HTTP_400_BAD_REQUEST, rows |-> subscribes,
          body |-> Errors(SUBSCRIBE_CANNOT_DELETE)]
    ELSE IF subscribes[<<u, author>>] > 1
    THEN [status |-> MultipleObjectsReturned, rows |-> subscribes,
          body |-> NoBody]
    ELSE [status |-> HTTP_204_NO_CONTENT,
          rows |-> [subscribes EXCEPT ![<<u, author>>] = 0],
          body |-> NoBody]

subscribe(u, method, user_id) ==
    /\ LET r == IF user_id \notin Users
                THEN [status |-> HTTP_404_NOT_FOUND, rows |-> subscribes,
                      body |-> Detail(USER_NOT_FOUND)]
                ELSE IF method = "GET"
                     THEN create_subscribe(u, user_id)
                     ELSE delete_subscribe(u, user_id)
       IN /\ subscribes' = r.rows
          /\ response' = Respond("subscribe", method, u, user_id, r.status, r.body)
    /\ UNCHANGED <<recipes, recipeTags, countOfIngredient, favorites, carts,
                   isBlocked, tokens, op>>

NextSubscribe ==
    \E u \in Users, method \in {"GET", "DELETE"}, user_id \in UserIds :
        subscribe(u, method, user_id)

SpecSubscribe == InitSeeded /\ [][NextSubscribe]_vars

(***************************************************************************)
(* C5: a subscribe-add whose target is the requesting user answers 400 and *)
(* creates no row, whatever the subscription state; no reachable state     *)
(* holds a Subscribe row whose subscriber is its author.                   *)
(***************************************************************************)
C5_SelfSubscribeStep ==
    (/\ response'.endpoint = "subscribe"
     /\ response'.method = "GET"
     /\ response'.user = response'.pk) =>
        (/\ response'.status = HTTP_400_BAD_REQUEST
         /\ subscribes' = subscribes)

C5_NoSelfSubscribe ==
    /\ [](\A u \in Users : subscribes[<<u, u>>] = 0)
    /\ [][C5_SelfSubscribeStep]_vars

\* a self-subscription was attempted, and refused, while the user had
\* subscriptions to other users
C5_Witness ==
    /\ response.endpoint = "subscribe"
    /\ response.method = "GET"
    /\ response.user = response.pk
    /\ response.status = HTTP_400_BAD_REQUEST
    /\ \E a \in Users : subscribes[<<response.user, a>>] = 1

(***************************************************************************)
(* C6: for subscriber and author different, an add while subscribed        *)
(* answers 400 and a remove while not subscribed answers 400, both leaving *)
(* the Subscribe rows unchanged; an add while absent creates exactly one   *)
(* row and a remove while present deletes it; no pair ever has more than   *)
(* one row.                                                                *)
(***************************************************************************)
C6_SubscribeStep ==
    (/\ response'.endpoint = "subscribe"
     /\ response'.pk \in Users
     /\ response'.user # response'.pk) =>
        LET p == <<response'.user, response'.pk>>
            others == (Users \X Users) \ {p}
        IN /\ \A q \in others : subscribes'[q] = subscribes[q]
           /\ (response'.method = "GET" /\ subscribes[p] > 0) =>
                  (response'.status = HTTP_400_BAD_REQUEST
                   /\ subscribes' = subscribes)
           /\ (response'.method = "DELETE" /\ subscribes[p] = 0) =>
                  (response'.status = HTTP_400_BAD_REQUEST
                   /\ subscribes' = subscribes)
           /\ (response'.method = "GET" /\ subscribes[p] = 0) =>
                  (response'.status = HTTP_201_CREATED /\ subscribes'[p] = 1)
           /\ (response'.method = "DELETE" /\ subscribes[p] > 0) =>
                  (response'.status = HTTP_204_NO_CONTENT /\ subscribes'[p] = 0)

C6_SubscribeToggle ==
    /\ [](\A p \in Users \X Users : subscribes[p] <= 1)
    /\ [][C6_SubscribeStep]_vars

\* a remove was refused for a pair that is not subscribed, while another
\* pair is subscribed
C6_Witness ==
    /\ response.endpoint = "subscribe"
    /\ response.method = "DELETE"
    /\ response.pk \in Users
    /\ response.user # response.pk
    /\ response.status = HTTP_400_BAD_REQUEST
    /\ subscribes[<<response.user, response.pk>>] = 0
    /\ \E p \in Users \X Users : subscribes[p] = 1

(***************************************************************************)
(* TokenCreateWithCheckBlockStatusView                                     *)
(***************************************************************************)
\* djoser's TokenCreateView._action: the user's token is fetched or created
\* and returned
TokenCreateView_action(u) ==
    [status |-> HTTP_200_OK, tokens |-> tokens \cup {u},
     body |-> [auth_token |-> u]]

\* a mutation of _action: the is_blocked test is dropped
TokenCreateWithCheckBlockStatusView_action_unchecked(u) ==
    TokenCreateView_action(u)

TokenCreateWithCheckBlockStatusView_action(u) ==
    IF isBlocked[u]
    THEN [status |-> HTTP_400_BAD_REQUEST, tokens |-> tokens,
          body |-> Errors(USER_BLOCKED)]
    ELSE TokenCreateView_action(u)

\* djoser's TokenCreateView.post: the credentials are validated, then
\* _action(serializer) answers
token_create(u, credentials_valid) ==
    /\ LET r == IF ~credentials_valid
                THEN [status |-> HTTP_400_BAD_REQUEST, tokens |-> tokens,
                      body |-> [non_field_errors |-> "invalid_credentials"]]
                ELSE TokenCreateWithCheckBlockStatusView_action(u)
       IN /\ tokens' = r.tokens
          /\ response' = Respond("token", IF credentials_valid THEN "POST valid"
                                          ELSE "POST invalid",
                                 u, u, r.status, r.body)
    /\ UNCHANGED <<recipes, recipeTags, countOfIngredient, favorites,
                   subscribes, carts, isBlocked, op>>

InitToken ==
    /\ recipes = SeedRecipes
    /\ recipeTags = [pk \in SeedPks |-> {1}]
    /\ countOfIngredient = {}
    /\ favorites = [p \in Users \X SeedPks |-> 0]
    /\ subscribes = [p \in Users \X Users |-> 0]
    /\ carts = [u \in Users |-> NoCart]
    /\ isBlocked \in [Users -> BOOLEAN]
    /\ tokens = {}
    /\ op = NoOp
    /\ response = NoResponse

NextToken ==
    \E u \in Users, credentials_valid \in BOOLEAN :
        token_create(u, credentials_valid)

SpecToken == InitToken /\ [][NextToken]_vars

(***************************************************************************)
(* C10: a token request with valid credentials for a user whose is_blocked *)
(* flag is set answers 400 "account blocked" and the underlying issuance   *)
(* is not invoked (no token is created, so no blocked user ever holds      *)
(* one); for a user whose flag is not set the answer and the token table   *)
(* are those of the underlying issuance.                                   *)
(***************************************************************************)
C10_TokenStep ==
    (response'.endpoint = "token" /\ response'.method = "POST valid") =>
        LET u == response'.user
        IN IF isBlocked[u]
           THEN /\ response'.status = HTTP_400_BAD_REQUEST
                /\ response'.body = Errors(USER_BLOCKED)
                /\ tokens' = tokens
           ELSE /\ response'.status = HTTP_200_OK
                /\ response'.body = [auth_token |-> u]
                /\ tokens' = tokens \cup {u}

Ingredient ==
    (1 :> [name |-> "Salt", measurement_unit |-> "g"]) @@
    (2 :> [name |-> "Sugar", measurement_unit |-> "g"]) @@
    (3 :> [name |-> "Salt", measurement_unit |-> "kg"])

IngredientIds == DOMAIN Ingredient

\* the rank of a name under the database collation
Collation(name) == CASE name = "Salt" -> 1 [] name = "Sugar" -> 2 [] OTHER -> 0

\* SQL NULL as Python renders it in an f-string
None == "None"

RECURSIVE SumAmounts(_)
SumAmounts(rows) ==
    IF rows = {} THEN 0
    ELSE LET row == CHOOSE x \in rows : TRUE
         IN row.amount + SumAmounts(rows \ {row})

\* The rows of recipes LEFT OUTER JOIN countofingredient LEFT OUTER JOIN
\* ingredient for the recipes of the cart, as values(NAME, MEASUREMENT_UNIT)
\* reads them: a recipe without CountOfIngredient rows yields one row of NULLs.
JoinedKeys(cart_recipes) ==
    {[name |-> Ingredient[row.ingredient].name,
      measurement_unit |-> Ingredient[row.ingredient].measurement_unit] :
        row \in {x \in countOfIngredient : x.recipe \in cart_recipes}}
    \cup
    {[name |-> None, measurement_unit |-> None] :
        r \in {x \in cart_recipes :
                  ~\E row \in countOfIngredient : row.recipe = x}}

\* annotate(total=Sum('ingredients__amount')) for one group
GroupTotal(cart_recipes, key) ==
    IF key.name = None
    THEN None
    ELSE ToString(SumAmounts(
             {row \in countOfIngredient :
                 /\ row.recipe \in cart_recipes
                 /\ Ingredient[row.ingredient].name = key.name
                 /\ Ingredient[row.ingredient].measurement_unit
                        = key.measurement_unit}))

\* order_by(NAME): ascending by name; the place of NULL (first or last) and
\* the order of equal names are the database's choice
OrderedByName(seq, nulls_first) ==
    \A i, j \in DOMAIN seq :
        i < j =>
            IF seq[i].name = None THEN nulls_first \/ seq[j].name = None
            ELSE IF seq[j].name = None THEN ~nulls_first
            ELSE Collation(seq[i].name) <= Collation(seq[j].name)

\* generate_shopping_cart_data: the query results the database may return
generate_shopping_cart_data(u) ==
    LET cart_recipes == carts[u].recipes
        keys == JoinedKeys(cart_recipes)
        n == Cardinality(keys)
        orders == {seq \in [1..n -> keys] :
                     /\ \A i, j \in 1..n : i # j => seq[i] # seq[j]
                     /\ \E nulls_first \in BOOLEAN :
                            OrderedByName(seq, nulls_first)}
    IN {[i \in 1..n |->
            [name |-> seq[i].name,
             measurement_unit |-> seq[i].measurement_unit,
             total |-> GroupTotal(cart_recipes, seq[i])]] : seq \in orders}

\* generate_ingredients_content: one line per group; a line is kept as the
\* three values its f-string interpolates, each rendered as text
generate_ingredients_content(ingredients) ==
    [i \in DOMAIN ingredients |->
        <<ingredients[i].name, ingredients[i].measurement_unit,
          ingredients[i].total>>]

download_shopping_cart(u) ==
    /\ IF ~carts[u].exists
       THEN response' = Respond("download_shopping_cart", "GET", u, 0,
                                DoesNotExist, NoBody)
       ELSE \E ingredients \in generate_shopping_cart_data(u) :
                IF Len(ingredients) = 0
                THEN response' = Respond("download_shopping_cart", "GET", u, 0,
                                         HTTP_400_BAD_REQUEST,
                                         Errors(SHOPPING_CART_DOES_NOT_EXISTS))
                ELSE response' = Respond("download_shopping_cart", "GET", u, 0,
                            HTTP_200_OK,
                            [content |->
                                generate_ingredients_content(ingredients)])
    /\ UNCHANGED <<recipes, recipeTags, countOfIngredient, favorites,
                   subscribes, carts, isBlocked, tokens, op>>

add_to_shopping_cart(recipe, shopping_cart) ==
    IF recipe \in shopping_cart.recipes
    THEN [status |-> HTTP_400_BAD_REQUEST, cart |-> shopping_cart,
          body |-> Errors(SHOPPING_CART_RECIPE_CANNOT_ADDED_TWICE)]
    ELSE [status |-> HTTP_201_CREATED,
          cart |-> [shopping_cart EXCEPT !.recipes = @ \cup {recipe}],
          body |-> RecipeShortReadSerializer(recipe)]

remove_from_shopping_cart(recipe, shopping_cart) ==
    IF ~(recipe \in shopping_cart.recipes)
    THEN [status |-> HTTP_400_BAD_REQUEST, cart |-> shopping_cart,
          body |-> Errors(SHOPPING_CART_RECIPE_CANNOT_DELETE)]
    ELSE [status |-> HTTP_204_NO_CONTENT,
          cart |-> [shopping_cart EXCEPT !.recipes = @ \ {recipe}],
          body |-> NoBody]

\* def add_to_shopping_cart(self, recipe, shopping_cart) and
\* def remove_from_shopping_cart(self, recipe, shopping_cart)
cart_method_parameters == <<"self", "recipe", "shopping_cart">>
\* self.add_to_shopping_cart(request, recipe, shopping_cart) and
\* self.remove_from_shopping_cart(request, recipe, shopping_cart)
cart_call_arguments == <<"self", "request", "recipe", "shopping_cart">>

\* ShoppingCart.objects.get_or_create(user=request.user)[0]
get_or_create(u) == [exists |-> TRUE, recipes |-> carts[u].recipes]

shopping_cart(u, method, pk) ==
    /\ LET cart == get_or_create(u)
           r == IF pk \notin DOMAIN recipes
                THEN [status |-> HTTP_404_NOT_FOUND, cart |-> carts[u],
                      body |-> Detail(NOT_FOUND)]
                ELSE IF Len(cart_call_arguments) # Len(cart_method_parameters)
                     THEN [status |-> TypeError, cart |-> cart, body |-> NoBody]
                     ELSE IF method = "GET"
                          THEN add_to_shopping_cart(pk, cart)
                          ELSE remove_from_shopping_cart(pk, cart)
       IN /\ carts' = [carts EXCEPT ![u] = r.cart]
          /\ response' = Respond("shopping_cart", method, u, pk, r.status, r.body)
    /\ UNCHANGED <<recipes, recipeTags, countOfIngredient, favorites,
                   subscribes, isBlocked, tokens, op>>

\* the amounts a seeded CountOfIngredient row of an ingredient may carry
SeedAmounts == (1 :> {3, 5}) @@ (2 :> {2}) @@ (3 :> {2})

\* the CountOfIngredient tables the seeded recipes may have: at most one row
\* per recipe and ingredient
SeedCountOfIngredient ==
    {rows \in SUBSET {[recipe |-> r, ingredient |-> i, amount |-> a] :
                         r \in SeedPks, i \in IngredientIds, a \in {2, 3, 5}} :
        /\ \A row \in rows : row.amount \in SeedAmounts[row.ingredient]
        /\ \A x, y \in rows :
              (x.recipe = y.recipe /\ x.ingredient = y.ingredient) => x = y}

\* the carts the users may have: no row, or a row with any set of recipes
SeedCarts ==
    [Users -> {NoCart} \cup
              {[exists |-> TRUE, recipes |-> rs] : rs \in SUBSET SeedPks}]

InitCart ==
    /\ recipes = SeedRecipes
    /\ recipeTags = [pk \in SeedPks |-> {1}]
    /\ countOfIngredient \in SeedCountOfIngredient
    /\ favorites = [p \in Users \X SeedPks |-> 0]
    /\ subscribes = [p \in Users \X Users |-> 0]
    /\ carts \in SeedCarts
    /\ isBlocked = [u \in Users |-> FALSE]
    /\ tokens = {}
    /\ op = NoOp
    /\ response = NoResponse

NextCart ==
    \/ \E u \in Users, method \in {"GET", "DELETE"}, pk \in SeedUrlPks :
           shopping_cart(u, method, pk)
    \/ \E u \in Users : download_shopping_cart(u)

SpecCart == InitCart /\ [][NextCart]_vars

(***************************************************************************)
(* C2: a request on /recipes/{id}/shopping_cart/ for an existing recipe is *)
(* a guarded toggle: an add of a recipe not in the cart answers 201 and    *)
(* makes it a member, an add of a member answers 400, a remove of a member *)
(* answers 204 and removes it, a remove of a recipe not in the cart        *)
(* answers 400 and leaves the cart contents unchanged.                     *)
(***************************************************************************)
C2_CartStep ==
    (response'.endpoint = "shopping_cart" /\ response'.pk \in DOMAIN recipes) =>
        LET u == response'.user
            pk == response'.pk
            member == pk \in carts[u].recipes
        IN /\ (response'.method = "GET" /\ ~member) =>
                  (/\ response'.status = HTTP_201_CREATED
                   /\ carts'[u].recipes = carts[u].recipes \cup {pk})
           /\ (response'.method = "GET" /\ member) =>
                  (/\ response'.status = HTTP_400_BAD_REQUEST
                   /\ carts'[u].recipes = carts[u].recipes)
           /\ (response'.method = "DELETE" /\ member) =>
                  (/\ response'.status = HTTP_204_NO_CONTENT
                   /\ carts'[u].recipes = carts[u].recipes \ {pk})
           /\ (response'.method = "DELETE" /\ ~member) =>
                  (/\ response'.status = HTTP_400_BAD_REQUEST
                   /\ carts'[u].recipes = carts[u].recipes)

C2_CartToggle == [][C2_CartStep]_vars

(***************************************************************************)
(* C3: the downloaded shopping list has exactly one line per distinct      *)
(* (ingredient name, measurement unit) pair among the CountOfIngredient    *)
(* rows of the recipes in the cart, the amount on the line is the sum of   *)
(* the amounts of the rows with that pair, and the lines are in ascending  *)
(* order of ingredient name.                                               *)
(***************************************************************************)
C3_PairsOfCart(u) ==
    {<<Ingredient[row.ingredient].name,
       Ingredient[row.ingredient].measurement_unit>> :
        row \in {x \in countOfIngredient : x.recipe \in carts[u].recipes}}

C3_SumOfPair(u, pair) ==
    SumAmounts({row \in countOfIngredient :
                   /\ row.recipe \in carts[u].recipes
                   /\ Ingredient[row.ingredient].name = pair[1]
                   /\ Ingredient[row.ingredient].measurement_unit = pair[2]})

C3_ShoppingList ==
    (response.endpoint = "download_shopping_cart"
     /\ response.status = HTTP_200_OK) =>
        LET u == response.user
            lines == response.body.content
            pairs == C3_PairsOfCart(u)
        IN /\ Len(lines) = Cardinality(pairs)
           /\ \A pair \in pairs :
                 \E i \in DOMAIN lines :
                     lines[i] = <<pair[1], pair[2],
                                  ToString(C3_SumOfPair(u, pair))>>
           /\ \A i, j \in DOMAIN lines :
                 i < j => Collation(lines[i][1]) <= Collation(lines[j][1])

(***************************************************************************)
(* C4: a download by a user whose cart holds no recipe (the cart being     *)
(* created on first access) answers 400 "shopping list does not exist",    *)
(* and a file is answered only when the cart holds at least one recipe.    *)
(***************************************************************************)
C4_EmptyCartDownload ==
    response.endpoint = "download_shopping_cart" =>
        /\ carts[response.user].recipes = {} =>
              (/\ response.status = HTTP_400_BAD_REQUEST
               /\ response.body = Errors(SHOPPING_CART_DOES_NOT_EXISTS))
        /\ response.status = HTTP_200_OK =>
              carts[response.user].recipes # {}

(***************************************************************************)
(* RecipeViewSet.create / update with RecipeWriteSerializer                *)
(***************************************************************************)
MaxRecipes == 1
MaxLen == 2

COOKING_TIME_MIN_VALUE == 1
INGREDIENT_MIN_AMOUNT == 1

\* Tag table
TagIds == {1, 2}

COOKING_TIME_MIN_ERROR == "COOKING_TIME_MIN_ERROR"
TAGS_UNIQUE_ERROR == "TAGS_UNIQUE_ERROR"
TAGS_EMPTY_ERROR == "TAGS_EMPTY_ERROR"
INGREDIENTS_UNIQUE_ERROR == "INGREDIENTS_UNIQUE_ERROR"
INGREDIENTS_EMPTY_ERROR == "INGREDIENTS_EMPTY_ERROR"
INGREDIENT_MIN_AMOUNT_ERROR == "INGREDIENT_MIN_AMOUNT_ERROR"
REQUIRED == "This field is required."
Valid == "valid"

SeqsUpTo(S, n) == UNION {[1..k -> S] : k \in 0..n}

\* the values a request may give the fields the validators read; the other
\* fields (name, text, image) are taken to be present and valid
CookingTimeInputs == {COOKING_TIME_MIN_VALUE - 1, COOKING_TIME_MIN_VALUE}
TagsInputs == SeqsUpTo(TagIds, MaxLen)
IngredientsInputs ==
    SeqsUpTo([id : {1, 2},
              amount : {INGREDIENT_MIN_AMOUNT - 1, INGREDIENT_MIN_AMOUNT}],
             MaxLen)

\* request.data: a dict; "ingredients" and "tags" may be left out
Payloads ==
    {[k \in keys \cup {"cooking_time"} |->
         [ingredients |-> i, tags |-> t, cooking_time |-> c][k]] :
        i \in IngredientsInputs, t \in TagsInputs, c \in CookingTimeInputs,
        keys \in SUBSET {"ingredients", "tags"}}

\* len(set(value))
DistinctCount(seq) == Cardinality({seq[i] : i \in DOMAIN seq})

validate_cooking_time(value) ==
    IF value < COOKING_TIME_MIN_VALUE THEN COOKING_TIME_MIN_ERROR ELSE Valid

\* a mutation of validate_tags: the uniqueness test is dropped
validate_tags_repeats_allowed(value) ==
    IF Len(value) = 0 THEN TAGS_EMPTY_ERROR ELSE Valid

validate_tags(value) ==
    IF Len(value) = 0 THEN TAGS_EMPTY_ERROR
    ELSE IF Len(value) # DistinctCount(value) THEN TAGS_UNIQUE_ERROR
    ELSE Valid

validate_ingredients(value) ==
    IF Len(value) = 0 THEN INGREDIENTS_EMPTY_ERROR
    ELSE IF \E i \in DOMAIN value : value[i].amount < INGREDIENT_MIN_AMOUNT
    THEN INGREDIENT_MIN_AMOUNT_ERROR
    ELSE LET id_ingredients == [i \in DOMAIN value |-> value[i].id]
         IN IF Len(id_ingredients) > DistinctCount(id_ingredients)
            THEN INGREDIENTS_UNIQUE_ERROR
            ELSE Valid

\* Serializer.run_validation over the declared fields: a missing field is an
\* error unless the update is partial; a present field goes to validate_<field>
FieldResult(data, partial, field) ==
    IF field \notin DOMAIN data
    THEN IF partial THEN Valid ELSE REQUIRED
    ELSE CASE field = "ingredients" -> validate_ingredients(data[field])
           [] field = "tags" -> validate_tags(data[field])
           [] field = "cooking_time" -> validate_cooking_time(data[field])

\* serializer.errors: the fields in error with their messages
SerializerErrors(data, partial) ==
    LET bad == {f \in {"ingredients", "tags", "cooking_time"} :
                   FieldResult(data, partial, f) # Valid}
    IN [f \in bad |-> FieldResult(data, partial, f)]

\* IsAuthorOrAdminOrReadOnly on an unsafe method: the author may write
IsAuthorOrAdminOrReadOnly(u, pk) == recipes[pk].author = u

\* RecipeReadSerializer over given Recipe rows: author, tags and ingredients
\* resolved through their tables, and the two flags computed for the
\* requesting user
RecipeRead(recipe_rows, pk, u) ==
    [id |-> pk,
     author |-> recipe_rows[pk].author,
     tags |-> {[id |-> t] : t \in recipeTags[pk]},
     ingredients |->
         {[id |-> row.ingredient,
           name |-> Ingredient[row.ingredient].name,
           measurement_unit |-> Ingredient[row.ingredient].measurement_unit,
           amount |-> row.amount] :
             row \in {x \in countOfIngredient : x.recipe = pk}},
     is_favorited |-> favorites[<<u, pk>>] > 0,
     is_in_shopping_cart |-> carts[u].exists /\ pk \in carts[u].recipes,
     cooking_time |-> recipe_rows[pk].cooking_time]

RecipeReadSerializer(pk, u) == RecipeRead(recipes, pk, u)

\* add_ingredients_and_tags has no return statement
add_ingredients_and_tags_returns == None

UNCHANGED_relations == UNCHANGED <<favorites, subscribes, carts, isBlocked, tokens>>
UNCHANGED_recipe_rows == UNCHANGED <<recipes, recipeTags, countOfIngredient>>

\* RecipeViewSet.create: the serializer is built from request.data
create(u, data) ==
    /\ op = NoOp
    /\ Cardinality(DOMAIN recipes) < MaxRecipes
    /\ op' = [pc |-> "is_valid", method |-> "POST", user |-> u, pk |-> 0,
              partial |-> FALSE, request_data |-> data, validated_data |-> data]
    /\ response' = NoResponse
    /\ UNCHANGED_recipe_rows
    /\ UNCHANGED_relations

\* RecipeViewSet.update (PUT) and partial_update (PATCH): get_object() answers
\* 404 or 403 before the serializer is built
update(u, method, pk) ==
    /\ op = NoOp
    /\ IF pk \notin DOMAIN recipes
       THEN /\ response' = Respond("recipes", method, u, pk,
                                   HTTP_404_NOT_FOUND, Detail(NOT_FOUND))
            /\ op' = op
       ELSE IF ~IsAuthorOrAdminOrReadOnly(u, pk)
       THEN /\ response' = Respond("recipes", method, u, pk,
                                   HTTP_403_FORBIDDEN, NoBody)
            /\ op' = op
       ELSE \E data \in Payloads :
            /\ op' = [pc |-> "is_valid", method |-> method, user |-> u,
                      pk |-> pk, partial |-> (method = "PATCH"),
                      request_data |-> data, validated_data |-> data]
            /\ response' = NoResponse
    /\ UNCHANGED_recipe_rows
    /\ UNCHANGED_relations

\* serializer.is_valid(raise_exception=True)
is_valid ==
    /\ op.pc = "is_valid"
    /\ LET errors == SerializerErrors(op.request_data, op.partial)
       IN IF DOMAIN errors # {}
          THEN /\ response' = Respond("recipes", op.method, op.user, op.pk,
                                      HTTP_400_BAD_REQUEST, errors)
               /\ op' = NoOp
          ELSE /\ op' = [op EXCEPT !.pc = IF op.method = "POST"
                                          THEN "Recipe.objects.create"
                                          ELSE "ingredients.clear"]
               /\ response' = response
    /\ UNCHANGED_recipe_rows
    /\ UNCHANGED_relations

\* RecipeWriteSerializer.create: Recipe.objects.create(**validated_data)
Recipe_objects_create ==
    /\ op.pc = "Recipe.objects.create"
    /\ LET pk == Cardinality(DOMAIN recipes) + 1
       IN /\ recipes' = [x \in DOMAIN recipes \cup {pk} |->
                            IF x = pk
                            THEN [author |-> op.user,
                                  cooking_time |-> op.validated_data.cooking_time]
                            ELSE recipes[x]]
          /\ recipeTags' = [x \in DOMAIN recipes \cup {pk} |->
                               IF x = pk THEN {} ELSE recipeTags[x]]
          /\ favorites' = [p \in Users \X (DOMAIN recipes \cup {pk}) |->
                              IF p[2] = pk THEN 0 ELSE favorites[p]]
          /\ op' = [op EXCEPT !.pc = "bulk_create", !.pk = pk]
    /\ UNCHANGED <<countOfIngredient, subscribes, carts, isBlocked, tokens,
                   response>>

\* RecipeWriteSerializer.update: instance.ingredients.clear()
ingredients_clear ==
    /\ op.pc = "ingredients.clear"
    /\ countOfIngredient' = {row \in countOfIngredient : row.recipe # op.pk}
    /\ op' = [op EXCEPT !.pc = "tags.clear"]
    /\ UNCHANGED <<recipes, recipeTags, response>>
    /\ UNCHANGED_relations

\* RecipeWriteSerializer.update: instance.tags.clear()
tags_clear ==
    /\ op.pc = "tags.clear"
    /\ recipeTags' = [recipeTags EXCEPT ![op.pk] = {}]
    /\ op' = [op EXCEPT !.pc = "bulk_create"]
    /\ UNCHANGED <<recipes, countOfIngredient, response>>
    /\ UNCHANGED_relations

\* add_ingredients_and_tags: validated_data.pop('ingredients') and
\* CountOfIngredient.objects.bulk_create(objects)
bulk_create ==
    /\ op.pc = "bulk_create"
    /\ IF "ingredients" \notin DOMAIN op.validated_data
       THEN /\ response' = Respond("recipes", op.method, op.user, op.pk,
                                   KeyError, NoBody)
            /\ op' = NoOp
            /\ countOfIngredient' = countOfIngredient
       ELSE LET ingredients == op.validated_data.ingredients
            IN /\ countOfIngredient' = countOfIngredient \cup
                      {[recipe |-> op.pk, ingredient |-> ingredients[i].id,
                        amount |-> ingredients[i].amount] :
                          i \in DOMAIN ingredients}
               /\ op' = [op EXCEPT
                            !.pc = "ingredients.add",
                            !.validated_data =
                                [k \in DOMAIN @ \ {"ingredients"} |-> @[k]]]
               /\ response' = response
    /\ UNCHANGED <<recipes, recipeTags>>
    /\ UNCHANGED_relations

\* add_ingredients_and_tags: instance.ingredients.add(count_of_ingredient).
\* The manager is handed the list itself, not its elements; a manager that
\* refuses an argument that is no model instance raises TypeError.  The rows
\* already carry the recipe, so an accepted call changes nothing.
ingredients_add ==
    /\ op.pc = "ingredients.add"
    /\ \/ /\ op' = [op EXCEPT !.pc = "tags.set"]
          /\ response' = response
       \/ /\ op' = NoOp
          /\ response' = Respond("recipes", op.method, op.user, op.pk,
                                 TypeError, NoBody)
    /\ UNCHANGED_recipe_rows
    /\ UNCHANGED_relations

\* add_ingredients_and_tags: validated_data.pop('tags') and
\* instance.tags.set(tags)
tags_set ==
    /\ op.pc = "tags.set"
    /\ IF "tags" \notin DOMAIN op.validated_data
       THEN /\ response' = Respond("recipes", op.method, op.user, op.pk,
                                   KeyError, NoBody)
            /\ op' = NoOp
            /\ recipeTags' = recipeTags
       ELSE LET tags == op.validated_data.tags
            IN /\ recipeTags' = [recipeTags EXCEPT ![op.pk] =
                                    {tags[i] : i \in DOMAIN tags}]
               /\ op' = [op EXCEPT
                            !.pc = "return",
                            !.validated_data =
                                [k \in DOMAIN @ \ {"tags"} |-> @[k]]]
               /\ response' = response
    /\ UNCHANGED <<recipes, countOfIngredient>>
    /\ UNCHANGED_relations

\* RecipeWriteSerializer.create returns what add_ingredients_and_tags
\* returns; serializer.save() asserts that it is an instance; the view then
\* answers 201 with RecipeReadSerializer(instance)
create_return ==
    /\ op.pc = "return"
    /\ op.method = "POST"
    /\ response' =
           IF add_ingredients_and_tags_returns = None
           THEN Respond("recipes", op.method, op.user, op.pk,
                        AssertionError, NoBody)
           ELSE Respond("recipes", op.method, op.user, op.pk,
                        HTTP_201_CREATED, RecipeReadSerializer(op.pk, op.user))
    /\ op' = NoOp
    /\ UNCHANGED_recipe_rows
    /\ UNCHANGED_relations

\* RecipeWriteSerializer.update: instance is rebound to what
\* add_ingredients_and_tags returns and handed to ModelSerializer.update,
\* which reads the instance's _meta and sets the remaining fields; the view
\* then answers 200 with RecipeReadSerializer(instance)
super_update ==
    /\ op.pc = "return"
    /\ op.method # "POST"
    /\ IF add_ingredients_and_tags_returns = None
       THEN /\ response' = Respond("recipes", op.method, op.user, op.pk,
                                   AttributeError, NoBody)
            /\ recipes' = recipes
       ELSE /\ recipes' = [recipes EXCEPT ![op.pk].cooking_time =
                               op.validated_data.cooking_time]
            /\ response' = Respond("recipes", op.method, op.user, op.pk,
                                   HTTP_200_OK,
                                   RecipeRead(recipes', op.pk, op.user))
    /\ op' = NoOp
    /\ UNCHANGED <<recipeTags, countOfIngredient>>
    /\ UNCHANGED_relations

\* RecipeViewSet.retrieve (ModelViewSet): GET /recipes/{pk}/
retrieve(u, pk) ==
    /\ op = NoOp
    /\ response' =
           IF pk \notin DOMAIN recipes
           THEN Respond("recipes", "GET", u, pk, HTTP_404_NOT_FOUND,
                        Detail(NOT_FOUND))
           ELSE Respond("recipes", "GET", u, pk, HTTP_200_OK,
                        RecipeReadSerializer(pk, u))
    /\ UNCHANGED <<op>>
    /\ UNCHANGED_recipe_rows
    /\ UNCHANGED_relations

\* pks a recipe URL may carry: every pk that can exist and one that cannot
RecipeUrlPks == 1..(MaxRecipes + 1)

Init ==
    /\ recipes = <<>>
    /\ recipeTags = <<>>
    /\ countOfIngredient = {}
    /\ favorites = [p \in Users \X {} |-> 0]
    /\ subscribes = [p \in Users \X Users |-> 0]
    /\ carts = [u \in Users |-> NoCart]
    /\ isBlocked = [u \in Users |-> FALSE]
    /\ tokens = {}
    /\ op = NoOp
    /\ response = NoResponse

Next ==
    \/ op = NoOp /\ \E u \in Users, data \in Payloads : create(u, data)
    \/ op = NoOp /\ \E u \in Users, method \in {"PUT", "PATCH"},
                        pk \in RecipeUrlPks :
                         update(u, method, pk)
    \/ is_valid
    \/ Recipe_objects_create
    \/ ingredients_clear
    \/ tags_clear
    \/ bulk_create
    \/ ingredients_add
    \/ tags_set
    \/ create_return
    \/ super_update
    \/ \E u \in Users, pk \in RecipeUrlPks : retrieve(u, pk)

Spec == Init /\ [][Next]_vars

(***************************************************************************)
(* C7: a recipe create or update whose payload has a cooking_time below    *)
(* the minimum, a repeated tag id or a repeated ingredient id is rejected  *)
(* with 400, and the Recipe rows, CountOfIngredient rows and tag           *)
(* associations are what they were before the request.                     *)
(***************************************************************************)
C7_Repeats(seq) == \E i, j \in DOMAIN seq : i # j /\ seq[i] = seq[j]

C7_Flawed(data) ==
    \/ "cooking_time" \in DOMAIN data
          /\ data.cooking_time < COOKING_TIME_MIN_VALUE
    \/ "tags" \in DOMAIN data /\ C7_Repeats(data.tags)
    \/ "ingredients" \in DOMAIN data
          /\ C7_Repeats([i \in DOMAIN data.ingredients |->
                            data.ingredients[i].id])

C7_Step ==
    /\ (op.pc = "idle" /\ op'.pc = "is_valid") =>
           UNCHANGED <<recipes, recipeTags, countOfIngredient>>
    /\ (op.pc = "is_valid" /\ C7_Flawed(op.request_data)) =>
           /\ op' = NoOp
           /\ response'.status = HTTP_400_BAD_REQUEST
           /\ UNCHANGED <<recipes, recipeTags, countOfIngredient>>

C7_RejectedWritesNothing == [][C7_Step]_vars

\* an update repeating a tag was rejected, and the recipe it addressed
\* still has its CountOfIngredient rows
C7_Witness ==
    /\ response.endpoint = "recipes"
    /\ response.method = "PUT"
    /\ response.status = HTTP_400_BAD_REQUEST
    /\ "tags" \in DOMAIN response.body
    /\ response.body.tags = TAGS_UNIQUE_ERROR
    /\ \E row \in countOfIngredient : row.recipe = response.pk

(***************************************************************************)
(* C8: recipe create and update are atomic with respect to the association *)
(* rows: once the operation has ended, also by a failure part-way, every   *)
(* Recipe row has its CountOfIngredient rows and its tag associations (a   *)
(* Recipe row without them, or with the old ones cleared and not replaced, *)
(* is never left behind).                                                  *)
(***************************************************************************)
C8_NothingPartialLeftBehind ==
    op = NoOp =>
        \A pk \in DOMAIN recipes :
            /\ recipeTags[pk] # {}
            /\ \E row \in countOfIngredient : row.recipe = pk

(***************************************************************************)
(* C9: a create whose payload passed validation answers 201, and the       *)
(* recipe then reads back with the requesting user as author, the          *)
(* submitted tag ids as its tags and the submitted (ingredient, amount)    *)
(* entries, names and units resolved, as its ingredients.                  *)
(***************************************************************************)
C9_Step ==
    (/\ op.pc \notin {"idle", "is_valid"}
     /\ op.method = "POST"
     /\ op'.pc = "idle") =>
        LET submitted == op.request_data
            pk == op.pk
        IN /\ response'.status = HTTP_201_CREATED
           /\ pk \in DOMAIN recipes'
           /\ recipes'[pk].author = op.user
           /\ recipeTags'[pk] =
                  {submitted.tags[i] : i \in DOMAIN submitted.tags}
           /\ {[id |-> row.ingredient,
                name |-> Ingredient[row.ingredient].name,
                measurement_unit |->
                    Ingredient[row.ingredient].measurement_unit,
                amount |-> row.amount] :
                  row \in {x \in countOfIngredient' : x.recipe = pk}}
              = {[id |-> submitted.ingredients[i].id,
                  name |-> Ingredient[submitted.ingredients[i].id].name,
                  measurement_unit |->
                      Ingredient[submitted.ingredients[i].id].measurement_unit,
                  amount |-> submitted.ingredients[i].amount] :
                    i \in DOMAIN submitted.ingredients}

C9_CreateRoundTrip == [][C9_Step]_vars

(***************************************************************************)
(* C11: an update (PUT or PATCH) whose payload passed validation answers   *)
(* 200 with the updated recipe, and the recipe's tag associations and      *)
(* CountOfIngredient rows are then exactly those of the payload: what was  *)
(* there before the update is gone, nothing is merged.                     *)
(***************************************************************************)
C11_RowsOfPayload(pk, data) ==
    {[recipe |-> pk, ingredient |-> data.ingredients[i].id,
      amount |-> data.ingredients[i].amount] : i \in DOMAIN data.ingredients}

C11_Step ==
    (/\ op.pc \notin {"idle", "is_valid"}
     /\ op.method \in {"PUT", "PATCH"}
     /\ op'.pc = "idle") =>
        LET submitted == op.request_data
            pk == op.pk
        IN /\ response'.status = HTTP_200_OK
           /\ response'.body = RecipeRead(recipes', pk, op.user)
           /\ "tags" \in DOMAIN submitted
           /\ "ingredients" \in DOMAIN submitted
           /\ recipeTags'[pk] =
                  {submitted.tags[i] : i \in DOMAIN submitted.tags}
           /\ {row \in countOfIngredient' : row.recipe = pk}
                  = C11_RowsOfPayload(pk, submitted)

C11_UpdateReplacesAssociations == [][C11_Step]_vars

====
